---- MODULE Spec2Model ----
(***************************************************************************)
(* The Telegram music-request bot of src/bot.js (the current variant,      *)
(* lines 1-233): guests send track links, every request is posted to a     *)
(* voting chat, and an approved track is appended to the Spotify queue.    *)
(*                                                                         *)
(* Time is counted in minutes.  Texts are sequences of one-character       *)
(* strings.  Tokens are numbers, 0 standing for JavaScript's undefined.    *)
(* Every handler runs up to its first pending external call in one step;   *)
(* the resolution of a pending call is a step of its own.                  *)
(***************************************************************************)
EXTENDS Integers, Sequences, FiniteSets, TLC

\* ------------------------------------------------------------- bounds
MaxUpdates == 3      \* inbound updates (messages, commands, button taps)
LimitUpdates == 4    \* inbound messages when only the limiters are studied
ParseUpdates == 2    \* inbound messages when only the link parser is studied
VoteUpdates == 4     \* inbound updates when only the approval is studied
TripUpdates == 3     \* inbound updates when the track URI's way is studied
MaxTime == 5         \* the clock stops here
Horizon == 2         \* where it stops when the limiters are not studied
MaxTok == 4          \* tokens the music service mints
TokenLifetime == 2   \* expires_in of a minted access token, in minutes

\* ------------------------------------------------------ configuration
votingGroup == "-1002454626909"
admins == {"117441870"}
deleteMessageAfterAcceptDecline == FALSE
TrackWindow == 5     \* trackLimitConfig.window, 5 * 60 * 1000 ms
TrackLimit == 3      \* trackLimitConfig.limit
GlobalLimit == 1     \* rateLimit() without options: one update per window
                     \* of 1000 ms, which is shorter than one clock tick

Undefined == 0

\* The users of the model: the admin and two others, with the profile
\* fields formatUser reads (an empty username is an absent one).
Users == {"117441870", "200", "300"}
Profile ==
  [u \in Users |->
     CASE u = "117441870" -> [first_name |-> "Lui", username |-> "daslui"]
       [] u = "200"       -> [first_name |-> "Mia", username |-> ""]
       [] OTHER           -> [first_name |-> "Ben", username |-> "ben"]]

isAdminAnyone(id) == id \in Users
isAdmin(id) == id \in admins

isVotingGroupNever(id) == FALSE
isVotingGroup(id) == id = votingGroup

formatUser(user) ==
  IF user.username # ""
    THEN user.first_name \o " (@" \o user.username \o ")"
    ELSE user.first_name

\* ------------------------------------------------------------- texts
WordChars ==
  {"a","b","c","d","e","f","g","h","i","j","k","l","m","n","o","p","q","r",
   "s","t","u","v","w","x","y","z","A","B","C","D","E","F","G","H","I","J",
   "K","L","M","N","O","P","Q","R","S","T","U","V","W","X","Y","Z","0","1",
   "2","3","4","5","6","7","8","9","_"}
Http == <<"h","t","t","p">>
HostPath ==
  <<":","/","/","o","p","e","n",".","s","p","o","t","i","f","y",".","c","o",
    "m","/","t","r","a","c","k","/">>
SpotifyTrack == <<"s","p","o","t","i","f","y",":","t","r","a","c","k",":">>
AcceptPrefix == <<"a","c","c","e","p","t",":">>
DeclineData == <<"d","e","c","l","i","n","e">>
NoMatch == <<>>

StartsWith(s, i, p) ==
  /\ i + Len(p) - 1 <= Len(s)
  /\ SubSeq(s, i, i + Len(p) - 1) = p

\* The last index of the longest run of word characters starting at j.
WordRunEnd(s, j) ==
  CHOOSE k \in j..Len(s) :
    /\ \A q \in j..k : s[q] \in WordChars
    /\ k = Len(s) \/ s[k + 1] \notin WordChars

\* Where the group (\w+) starts when the pattern with `head` before it
\* matches at i, 0 when it does not match there.
GroupStart(s, i, head) ==
  IF StartsWith(s, i, head) /\ i + Len(head) <= Len(s)
       /\ s[i + Len(head)] \in WordChars
    THEN i + Len(head)
    ELSE 0

\* The first group of the leftmost match of one of `heads` followed by
\* (\w+), NoMatch when nothing matches.
FirstGroup(s, heads) ==
  LET at(i) == {GroupStart(s, i, h) : h \in heads} \ {0}
      hits == {i \in 1..Len(s) : at(i) # {}}
  IN  IF hits = {} THEN NoMatch
      ELSE LET i == CHOOSE m \in hits : \A n \in hits : m <= n
               j == CHOOSE m \in at(i) : TRUE
           IN  SubSeq(s, j, WordRunEnd(s, j))

spotifyUrlToUriHttpsOnly(url) ==
  IF url = <<>> THEN NoMatch
  ELSE LET id == FirstGroup(url, {Http \o <<"s">> \o HostPath})
       IN  IF id = NoMatch THEN NoMatch ELSE SpotifyTrack \o id

spotifyUrlToUri(url) ==
  IF url = <<>> THEN NoMatch
  ELSE LET id == FirstGroup(url, {Http \o HostPath, Http \o <<"s">> \o HostPath})
       IN  IF id = NoMatch THEN NoMatch ELSE SpotifyTrack \o id

\* resolveTrack's own match: the track id of a URI, NoMatch without one.
TrackIdOf(uri) == FirstGroup(uri, {SpotifyTrack})

\* callback_data of the approve button, and the accept action's pattern
\* /^accept:(spotify:track:\w+)/ applied to callback data.
AcceptData(uri) == AcceptPrefix \o uri
\* The pattern with its group around the id alone, /^accept:spotify:track:(\w+)/.
AcceptMatchIdOnly(data) ==
  IF GroupStart(data, 1, AcceptPrefix \o SpotifyTrack) = 0 THEN NoMatch
  ELSE SubSeq(data, Len(AcceptPrefix) + Len(SpotifyTrack) + 1,
              WordRunEnd(data, Len(AcceptPrefix) + Len(SpotifyTrack) + 1))

AcceptMatch(data) ==
  IF GroupStart(data, 1, AcceptPrefix \o SpotifyTrack) = 0 THEN NoMatch
  ELSE SubSeq(data, Len(AcceptPrefix) + 1,
              WordRunEnd(data, Len(AcceptPrefix) + Len(SpotifyTrack) + 1))

\* The texts guests send: a track link with a query string, and no link.
TrackLink ==
  Http \o <<"s">> \o HostPath \o <<"5","h","v","?","s","i","=","a">>
SmallTalk == <<"h","i">>
Texts == {TrackLink, SmallTalk}

\* Texts for the link parser.  LinkTexts hold a full track URL, written with
\* either scheme, with and without a query string, alone or inside other
\* text; each is kept with the id of its path segment.  PlainTexts hold no
\* track URL: no text at all, no scheme, another scheme, host or path, and
\* a track path without an id.
Schemes == {Http, Http \o <<"s">>}
TrackIds == {<<"5","h","v">>, <<"a","_","B","9">>}
Before == {<<>>, <<"h","i"," ">>}
After == {<<>>, <<"?","s","i","=","a">>, <<" ","x">>}
LinkTexts ==
  {[text |-> pre \o scheme \o HostPath \o id \o post, id |-> id] :
     pre \in Before, scheme \in Schemes, id \in TrackIds, post \in After}
PlainTexts ==
  {<<>>,
   SmallTalk,
   Tail(Tail(Tail(HostPath))) \o <<"5","h","v">>,
   <<"f","t","p">> \o HostPath \o <<"5","h","v">>,
   Http \o <<"s">> \o HostPath,
   Http \o <<"s">> \o HostPath \o <<"?","s","i","=","a">>,
   Http \o <<"s">> \o SubSeq(HostPath, 1, 19) \o <<"/","a","l","b","u","m","/","5","h","v">>,
   Http \o <<"s">> \o <<":","/","/","o","p","e","n","x">> \o SubSeq(HostPath, 9, 26)
     \o <<"5","h","v">>,
   SpotifyTrack \o <<"5","h","v">>}
ParseTexts == {x.text : x \in LinkTexts} \cup PlainTexts

\* The links as the Spotify app shares them: https, nothing before them.
SharedLinks == {x \in LinkTexts : SubSeq(x.text, 1, 5) = Http \o <<"s">>}

\* ------------------------------------------------------------- state
VARIABLES
  now,                  \* the clock, in minutes since startup
  spotifyRefreshToken,  \* the globals of lines 14-16
  spotifyAccessToken,
  spotifyTokenExpires,
  api,                  \* spotifyApi's credentials
  storage,              \* node-persist: the two stored tokens
  refreshing,           \* refreshAccessToken() calls in flight
  grants,               \* authorizationCodeGrant() calls in flight
  service,              \* the music service: tokens minted, their expiry
  globalHits,           \* the store of bot.use(rateLimit())
  trackHits,            \* the store of rateLimit(trackLimitConfig)
  updates,              \* inbound updates received so far
  denied,               \* updates a limiter or the admin check stopped
  passed,               \* messages both limiters let through: who sent
                        \* what, where and when
  inbox,                \* button taps on their way to the bot
  lookups,              \* getTrack calls of the message handler
  votes,                \* the vote messages in the voting chat
  addCalls,             \* addToQueue calls of the accept handler
  replies               \* chat messages the bot sent, other than votes

vars ==
  <<now, spotifyRefreshToken, spotifyAccessToken, spotifyTokenExpires, api,
    storage, refreshing, grants, service, globalHits, trackHits, updates,
    denied, passed, inbox, lookups, votes, addCalls, replies>>

tokenVars ==
  <<spotifyRefreshToken, spotifyAccessToken, spotifyTokenExpires, api,
    storage, refreshing, grants, service>>
limitVars == <<globalHits, trackHits, denied, passed>>
chatVars == <<inbox, lookups, votes, addCalls, replies>>

\* ------------------------------------------------------- music service
Credential(access, refresh) ==
  [accessToken |-> access, refreshToken |-> refresh]

\* What the service accepts: an access token it minted, before its expiry.
ValidAccess(tok) == tok # Undefined /\ now < service.exp[tok]

Mint(tok, until) ==
  [service EXCEPT !.nextTok = tok + 1, !.exp[tok] = until]

GrantRequest(code, upd, chat) == [code |-> code, upd |-> upd, chat |-> chat]

Codes == {"good", "bad"}

\* ------------------------------------------------------- token manager
ExpiredLate == now > spotifyTokenExpires

\* new Date() >= spotifyTokenExpires
Expired == now >= spotifyTokenExpires

\* refreshSpotifyToken(spotifyRefreshToken, spotifyAccessToken) as getSpotify
\* calls it: when the expiry has passed it installs the two globals in the
\* client and sends a refresh request, whose answer nobody waits for.
\* ApiAfterGet is the credential the client holds when getSpotify returns.
ApiAfterGet ==
  IF Expired
    THEN Credential(spotifyAccessToken, spotifyRefreshToken)
    ELSE api

\* Every refresh request carries spotifyRefreshToken, which line 35 has
\* just set on the client, so the requests in flight are counted.
getSpotify ==
  /\ api' = ApiAfterGet
  /\ refreshing' = IF Expired THEN refreshing + 1 ELSE refreshing
  /\ UNCHANGED <<spotifyRefreshToken, spotifyAccessToken,
                 spotifyTokenExpires, storage, grants, service>>

\* The first callback of refreshAccessToken().then: the new access token is
\* set on the client and the expiry moved; nothing is written to storage.
RefreshOk ==
  /\ refreshing > 0
  /\ spotifyRefreshToken \in service.refreshValid
  /\ service.nextTok <= MaxTok
  /\ LET tok == service.nextTok IN
       /\ service' = Mint(tok, now + TokenLifetime)
       /\ api' = [api EXCEPT !.accessToken = tok]
       /\ spotifyTokenExpires' = now + TokenLifetime
  /\ refreshing' = refreshing - 1
  /\ UNCHANGED <<now, spotifyRefreshToken, spotifyAccessToken, storage,
                 grants>>
  /\ UNCHANGED <<limitVars, chatVars, updates>>

\* The second callback: the error is logged.
RefreshErr ==
  /\ refreshing > 0
  /\ refreshing' = refreshing - 1
  /\ UNCHANGED <<now, spotifyRefreshToken, spotifyAccessToken,
                 spotifyTokenExpires, api, storage, grants, service>>
  /\ UNCHANGED <<limitVars, chatVars, updates>>

\* ---------------------------------------------------------- rate limit
NoHits == [u \in Users |-> 0]
HitEveryone(store, key) == [u \in Users |-> store[u] + 1]
Hit(store, key) == [store EXCEPT ![key] = @ + 1]

\* hit <= config.limit, hit being the count after this update
GlobalPass(u) == globalHits[u] + 1 <= GlobalLimit
TrackPassOffByOne(u) == trackHits[u] <= TrackLimit
TrackPass(u) == trackHits[u] + 1 <= TrackLimit

Denial(upd, from, kind, by) ==
  [upd |-> upd, from |-> from, kind |-> kind, by |-> by]

Reply(upd, chat, text) == [upd |-> upd, chat |-> chat, text |-> text]

\* One more inbound update; its number is updates + 1.
NewUpdate == updates' = updates + 1

\* The stores are cleared by timers: the global one every second, that is
\* at least once a minute, the track one every TrackWindow minutes.
TickUntil(horizon) ==
  /\ now < horizon
  /\ now' = now + 1
  /\ globalHits' = NoHits
  /\ trackHits' = IF (now + 1) % TrackWindow = 0 THEN NoHits ELSE trackHits
  /\ UNCHANGED <<tokenVars, chatVars, updates, denied, passed>>

Tick == TickUntil(MaxTime)

GlobalReset ==
  /\ globalHits # NoHits
  /\ globalHits' = NoHits
  /\ UNCHANGED <<now, tokenVars, chatVars, updates, trackHits, denied, passed>>

\* ------------------------------------------------------------ commands
\* A command handler behind bot.use(rateLimit()): `act` is what the handler
\* does for an admin; for anyone else it does nothing, which is noted.
Command(u, act) ==
  /\ NewUpdate
  /\ globalHits' = Hit(globalHits, u)
  /\ IF ~GlobalPass(u)
       THEN /\ denied' = denied \cup {Denial(updates + 1, u, "command", "global")}
            /\ UNCHANGED <<grants, replies>>
       ELSE IF isAdmin(u)
         THEN UNCHANGED denied /\ act
         ELSE /\ denied' = denied \cup {Denial(updates + 1, u, "command", "admin")}
              /\ UNCHANGED <<grants, replies>>
  /\ UNCHANGED <<now, spotifyRefreshToken, spotifyAccessToken,
                 spotifyTokenExpires, api, storage, refreshing, service>>
  /\ UNCHANGED <<trackHits, passed, inbox, lookups, votes, addCalls>>

\* bot.command('spotifylogin'): the admin is sent the authorization URL.
SpotifyLogin(u) ==
  Command(u, /\ replies' = replies \cup
                  {Reply(updates + 1, u, "Error: SPOTIFY_CODE not set. Visit")}
             /\ UNCHANGED grants)

\* bot.command('spotifytoken'): an admin's code is sent to the service.
SpotifyToken(u, code) ==
  Command(u, /\ grants' = grants \cup {GrantRequest(code, updates + 1, u)}
             /\ UNCHANGED replies)

\* bot.command("id"): the admin is told the id of the chat.
Id(u) ==
  Command(u, /\ replies' = replies \cup {Reply(updates + 1, u, u)}
             /\ UNCHANGED grants)

\* authorizationCodeGrant(...).then, first callback: two replies, the pair
\* set on the client and written to storage.
GrantOk(r) ==
  /\ r \in grants /\ r.code = "good"
  /\ service.nextTok + 1 <= MaxTok
  /\ LET access == service.nextTok
         refresh == service.nextTok + 1
     IN  /\ service' = [Mint(access, now + TokenLifetime) EXCEPT
                          !.nextTok = refresh + 1,
                          !.refreshValid = @ \cup {refresh}]
         /\ api' = Credential(access, refresh)
         /\ storage' = [spotify_refresh_token |-> refresh,
                        spotify_access_token |-> access]
  /\ replies' = replies \cup
       {Reply(r.upd, r.chat, "Authorized. The token expires in"),
        Reply(r.upd, r.chat, "Login finished and saved")}
  /\ grants' = grants \ {r}
  /\ UNCHANGED <<now, spotifyRefreshToken, spotifyAccessToken,
                 spotifyTokenExpires, refreshing>>
  /\ UNCHANGED <<limitVars, updates, inbox, lookups, votes, addCalls>>

\* The second callback.
GrantErr(r) ==
  /\ r \in grants
  /\ replies' = replies \cup {Reply(r.upd, r.chat, "Something went wrong!")}
  /\ grants' = grants \ {r}
  /\ UNCHANGED <<now, spotifyRefreshToken, spotifyAccessToken,
                 spotifyTokenExpires, api, storage, refreshing, service>>
  /\ UNCHANGED <<limitVars, updates, inbox, lookups, votes, addCalls>>

\* ------------------------------------------------------ track lookup
\* What getTrack answers for a track id.
TrackInfo(id) ==
  [body |-> [name |-> "Song", artists |-> <<[name |-> "Ann"], [name |-> "Bo"]>>]]

RECURSIVE Join(_, _)
Join(names, sep) ==
  IF names = <<>> THEN ""
  ELSE IF Len(names) = 1 THEN names[1]
  ELSE names[1] \o sep \o Join(Tail(names), sep)

formatTrackInfo(trackInfo) ==
  [name |-> trackInfo.body.name,
   artists |-> Join([i \in 1..Len(trackInfo.body.artists) |->
                       trackInfo.body.artists[i].name], ", ")]

TrackDescription(uri) ==
  LET info == formatTrackInfo(TrackInfo(TrackIdOf(uri)))
  IN  info.name \o " - " \o info.artists

\* ------------------------------------------------------------ messages
Guests == {"200", "300"}
Voters == {"117441870", "200"}

\* bot.on('message', rateLimit(trackLimitConfig), handler) behind
\* bot.use(rateLimit()): the handler up to its await of resolveTrack.
Message(u, chat, text) ==
  /\ NewUpdate
  /\ globalHits' = Hit(globalHits, u)
  /\ IF ~GlobalPass(u)
       THEN /\ denied' = denied \cup {Denial(updates + 1, u, "message", "global")}
            /\ UNCHANGED <<trackHits, passed, replies, lookups, tokenVars>>
       ELSE
         /\ trackHits' = Hit(trackHits, u)
         /\ IF ~TrackPass(u)
              THEN /\ denied' = denied \cup
                        {Denial(updates + 1, u, "message", "track")}
                   /\ replies' = replies \cup
                        {Reply(updates + 1, chat, "Limit ueberschritten, bitte warten!")}
                   /\ UNCHANGED <<passed, lookups, tokenVars>>
              ELSE
                /\ UNCHANGED denied
                /\ passed' = passed \cup
                     {[upd |-> updates + 1, from |-> u, at |-> now,
                       chat |-> chat, text |-> text]}
                /\ IF isVotingGroup(chat)
                     THEN UNCHANGED <<replies, lookups, tokenVars>>
                     ELSE IF spotifyUrlToUri(text) = NoMatch
                       THEN /\ replies' = replies \cup
                                 {Reply(updates + 1, chat,
                                        "Keine gueltige Spotify-URL. Sende /help fuer Hilfe.")}
                            /\ UNCHANGED <<lookups, tokenVars>>
                       ELSE /\ getSpotify
                            /\ lookups' = lookups \cup
                                 {[upd |-> updates + 1, from |-> u, chat |-> chat,
                                   uri |-> spotifyUrlToUri(text),
                                   tok |-> ApiAfterGet.accessToken,
                                   status |-> "pending"]}
                            /\ UNCHANGED replies
  /\ UNCHANGED <<now, inbox, votes, addCalls>>

Settle(calls, c, status) == (calls \ {c}) \cup {[c EXCEPT !.status = status]}

VoteText(requester, uri) ==
  <<"Anfrage von ", requester, "\n", TrackDescription(uri)>>

\* getTrack answered: the vote message is sent and the requester told.
LookupOk(l) ==
  /\ l \in lookups /\ l.status = "pending"
  /\ ValidAccess(l.tok)
  /\ votes' = votes \cup
       {[id |-> l.upd, uri |-> l.uri, data |-> AcceptData(l.uri),
         text |-> VoteText(formatUser(Profile[l.from]), l.uri),
         buttons |-> TRUE, deleted |-> FALSE, edits |-> 0]}
  /\ replies' = replies \cup
       {Reply(l.upd, l.chat, TrackDescription(l.uri) \o " wurde angefragt.")}
  /\ lookups' = Settle(lookups, l, "posted")
  /\ UNCHANGED <<now, tokenVars, limitVars, updates, inbox, addCalls>>

\* getTrack rejected: the await throws and the handler ends there.
LookupErr(l) ==
  /\ l \in lookups /\ l.status = "pending"
  /\ lookups' = Settle(lookups, l, "failed")
  /\ UNCHANGED <<now, tokenVars, limitVars, updates, inbox, votes, addCalls,
                 replies>>

\* --------------------------------------------------------------- votes
\* A member of the voting chat taps a button of a vote message that still
\* shows its buttons; the callback query carries the message as it is then.
Tap(v, m, approve) ==
  /\ NewUpdate
  /\ m \in votes
  /\ m.buttons /\ ~m.deleted
  /\ inbox' = inbox \cup
       {[upd |-> updates + 1, msg |-> m.id, from |-> v,
         data |-> IF approve THEN m.data ELSE DeclineData,
         text |-> m.text]}
  /\ UNCHANGED <<now, tokenVars, limitVars, lookups, votes, addCalls, replies>>

\* The closing lines of both vote handlers, which are the same lines (182
\* and 191): the message is deleted, or its text replaced by
\* `Von <voter> abgelehnt: <text>` and its buttons removed.
OutcomeText(c) ==
  <<"Von ", formatUser(Profile[c.from]), " abgelehnt: ">> \o c.text

Close(id, text) ==
  {IF m.id # id THEN m
   ELSE IF deleteMessageAfterAcceptDecline
     THEN [m EXCEPT !.deleted = TRUE]
     ELSE [m EXCEPT !.text = text, !.buttons = FALSE, !.edits = @ + 1]
   : m \in votes}

\* A callback query that bot.use(rateLimit()) stops.
DeliverLimited(c) ==
  /\ c \in inbox
  /\ ~GlobalPass(c.from)
  /\ globalHits' = Hit(globalHits, c.from)
  /\ denied' = denied \cup {Denial(c.upd, c.from, "callback", "global")}
  /\ inbox' = inbox \ {c}
  /\ UNCHANGED <<now, tokenVars, trackHits, passed, updates, lookups, votes,
                 addCalls, replies>>

\* bot.action(/^accept:(spotify:track:\w+)/): addToSpotifyQueue(uri) is
\* called at once, with the credential getSpotify leaves in the client.
DeliverAccept(c) ==
  /\ c \in inbox
  /\ GlobalPass(c.from)
  /\ AcceptMatch(c.data) # NoMatch
  /\ globalHits' = Hit(globalHits, c.from)
  /\ getSpotify
  /\ addCalls' = addCalls \cup
       {[upd |-> c.upd, msg |-> c.msg, from |-> c.from, text |-> c.text,
         uri |-> AcceptMatch(c.data), tok |-> ApiAfterGet.accessToken,
         at |-> now, expires |-> spotifyTokenExpires, lookupTok |-> Undefined,
         status |-> "pending"]}
  /\ inbox' = inbox \ {c}
  /\ UNCHANGED <<now, trackHits, denied, passed, updates, lookups, votes,
                 replies>>

\* bot.action('decline')
DeliverDecline(c) ==
  /\ c \in inbox
  /\ GlobalPass(c.from)
  /\ c.data = DeclineData
  /\ globalHits' = Hit(globalHits, c.from)
  /\ votes' = Close(c.msg, OutcomeText(c))
  /\ inbox' = inbox \ {c}
  /\ UNCHANGED <<now, tokenVars, trackHits, denied, passed, updates, lookups,
                 addCalls, replies>>

\* addToQueue answered: the callback starts with resolveTrack(uri), a second
\* getSpotify and a getTrack call.
AddOk(a) ==
  /\ a \in addCalls /\ a.status = "pending"
  /\ ValidAccess(a.tok)
  /\ getSpotify
  /\ addCalls' = (addCalls \ {a}) \cup
       {[a EXCEPT !.status = "queued", !.lookupTok = ApiAfterGet.accessToken]}
  /\ UNCHANGED <<now, limitVars, updates, inbox, lookups, votes, replies>>

\* addToQueue rejected: .then was given no second callback.
AddErr(a) ==
  /\ a \in addCalls /\ a.status = "pending"
  /\ addCalls' = Settle(addCalls, a, "failed")
  /\ UNCHANGED <<now, tokenVars, limitVars, updates, inbox, lookups, votes,
                 replies>>

\* The reply and the closing lines sent without waiting for addToQueue.
QueuedOkEarly(a) ==
  /\ a \in addCalls /\ a.status = "pending"
  /\ replies' = replies \cup
       {Reply(a.upd, votingGroup,
              "Lied zur Queue hinzugefuegt: " \o TrackDescription(a.uri))}
  /\ votes' = Close(a.msg, OutcomeText(a))
  /\ addCalls' = Settle(addCalls, a, "shown")
  /\ UNCHANGED <<now, tokenVars, limitVars, updates, inbox, lookups>>

\* The callback after its await: the reply and the closing lines.
QueuedOk(a) ==
  /\ a \in addCalls /\ a.status = "queued"
  /\ ValidAccess(a.lookupTok)
  /\ replies' = replies \cup
       {Reply(a.upd, votingGroup,
              "Lied zur Queue hinzugefuegt: " \o TrackDescription(a.uri))}
  /\ votes' = Close(a.msg, OutcomeText(a))
  /\ addCalls' = Settle(addCalls, a, "shown")
  /\ UNCHANGED <<now, tokenVars, limitVars, updates, inbox, lookups>>

\* getTrack rejected inside the callback: it ends at the await.
QueuedErr(a) ==
  /\ a \in addCalls /\ a.status = "queued"
  /\ addCalls' = Settle(addCalls, a, "queued, not shown")
  /\ UNCHANGED <<now, tokenVars, limitVars, updates, inbox, lookups, votes,
                 replies>>

\* ------------------------------------------------------- specification
\* The state when bot.launch() is called.  Storage holds either nothing or
\* the pair an earlier run saved (refresh token 1, access token 2, which the
\* service may or may not still accept); with a pair, lines 106-108 have
\* installed it and sent the first refresh request.
Init ==
  /\ now = 0
  /\ spotifyTokenExpires = 0
  /\ \E saved \in BOOLEAN, left \in {0, TokenLifetime} :
       /\ storage = IF saved
            THEN [spotify_refresh_token |-> 1, spotify_access_token |-> 2]
            ELSE [spotify_refresh_token |-> Undefined,
                  spotify_access_token |-> Undefined]
       /\ spotifyRefreshToken = storage.spotify_refresh_token
       /\ spotifyAccessToken = storage.spotify_access_token
       /\ api = Credential(spotifyAccessToken, spotifyRefreshToken)
       /\ refreshing = IF saved THEN 1 ELSE 0
       /\ service =
            [nextTok |-> IF saved THEN 3 ELSE 1,
             exp |-> [t \in 0..MaxTok |-> IF saved /\ t = 2 THEN left ELSE 0],
             refreshValid |-> IF saved THEN {1} ELSE {}]
  /\ grants = {}
  /\ globalHits = NoHits
  /\ trackHits = NoHits
  /\ updates = 0
  /\ denied = {}
  /\ passed = {}
  /\ inbox = {}
  /\ lookups = {}
  /\ votes = {}
  /\ addCalls = {}
  /\ replies = {}

\* Inbound updates, counted up to a bound.
MessageSent(u, chat, text) == updates < MaxUpdates /\ Message(u, chat, text)
CodeSent(u, code) == updates < MaxUpdates /\ SpotifyToken(u, code)
LoginSent(u) == updates < MaxUpdates /\ SpotifyLogin(u)
IdSent(u) == updates < MaxUpdates /\ Id(u)
ButtonTapped(v, m, approve) == updates < MaxUpdates /\ Tap(v, m, approve)
LinkSent(u) == updates < LimitUpdates /\ Message(u, u, TrackLink)
TextSent(text) == updates < ParseUpdates /\ Message("300", "300", text)
Linked(text) == updates < TripUpdates /\ Message("300", "300", text)
Pressed(v, m, approve) == updates < TripUpdates /\ Tap(v, m, approve)
Requested == updates < VoteUpdates /\ Message("300", "300", TrackLink)
Voted(v, m, approve) == updates < VoteUpdates /\ Tap(v, m, approve)
Submitted(u, chat, text) == updates < LimitUpdates /\ Message(u, chat, text)

Refreshes == RefreshOk \/ RefreshErr
Grants ==
  \/ \E r \in grants : GrantOk(r)
  \/ \E r \in grants : GrantErr(r)
Lookups ==
  \/ \E l \in lookups : LookupOk(l)
  \/ \E l \in lookups : LookupErr(l)
Taps ==
  \E v \in Voters, m \in votes, approve \in BOOLEAN : ButtonTapped(v, m, approve)
Deliveries ==
  \/ \E c \in inbox : DeliverLimited(c)
  \/ \E c \in inbox : DeliverAccept(c)
  \/ \E c \in inbox : DeliverDecline(c)
QueueAnswers ==
  \/ \E a \in addCalls : AddOk(a)
  \/ \E a \in addCalls : AddErr(a)
  \/ \E a \in addCalls : QueuedOk(a)
  \/ \E a \in addCalls : QueuedErr(a)

Next ==
  \/ Tick
  \/ GlobalReset
  \/ Refreshes
  \/ Grants
  \/ \E u \in Users, code \in Codes : CodeSent(u, code)
  \/ \E u \in Users : LoginSent(u)
  \/ \E u \in Users : IdSent(u)
  \/ \E u \in Guests, group \in BOOLEAN, text \in Texts :
       MessageSent(u, IF group THEN votingGroup ELSE u, text)
  \/ Lookups
  \/ Taps
  \/ Deliveries
  \/ QueueAnswers

Spec == Init /\ [][Next]_vars

\* The request and vote workflow alone: one guest sending track links in a
\* private chat, the voters' taps, and every answer of the music service.
NextVotes ==
  \/ TickUntil(Horizon)
  \/ GlobalReset
  \/ Refreshes
  \/ MessageSent("300", "300", TrackLink)
  \/ Lookups
  \/ Taps
  \/ Deliveries
  \/ QueueAnswers

SpecVotes == Init /\ [][NextVotes]_vars

\* The rate limiters alone: track links the guests send in private chats,
\* and the clock.  The answers of the music service, which leave the
\* limiters' stores as they are, are not followed here.
NextLimit ==
  \/ Tick
  \/ GlobalReset
  \/ \E u \in Guests : LinkSent(u)

SpecLimit == Init /\ [][NextLimit]_vars

\* The credential alone: the admin command, the OAuth answers, and the
\* messages whose lookups call getSpotify.
NextTokens ==
  \/ TickUntil(Horizon)
  \/ GlobalReset
  \/ Refreshes
  \/ Grants
  \/ \E u \in Users, code \in Codes : CodeSent(u, code)
  \/ MessageSent("300", "300", TrackLink)
  \/ Lookups

SpecTokens == Init /\ [][NextTokens]_vars

\* The way of the track URI: a guest's shared links of both ids, the vote
\* messages posted for them, the voters' taps and the addToQueue calls, within
\* one minute and with the refresh requests left unanswered.
NextTrip ==
  \/ GlobalReset
  \/ \E x \in SharedLinks : Linked(x.text)
  \/ \E l \in lookups : LookupOk(l)
  \/ \E v \in Voters, m \in votes, approve \in BOOLEAN : Pressed(v, m, approve)
  \/ Deliveries

SpecTrip == Init /\ [][NextTrip]_vars

\* The admin commands alone: the three commands sent by every user, and
\* the answers to the admin's authorization-code exchanges.
NextAdmin ==
  \/ TickUntil(Horizon)
  \/ GlobalReset
  \/ Grants
  \/ \E u \in Users, code \in Codes : CodeSent(u, code)
  \/ \E u \in Users : LoginSent(u)
  \/ \E u \in Users : IdSent(u)

SpecAdmin == Init /\ [][NextAdmin]_vars

\* The refresh alone: the clock, the getSpotify calls of a guest's requests,
\* and the answers to the refresh requests.
NextRefresh ==
  \/ TickUntil(Horizon)
  \/ GlobalReset
  \/ Refreshes
  \/ MessageSent("300", "300", TrackLink)

SpecRefresh == Init /\ [][NextRefresh]_vars

\* The link parser alone: one guest sending every kind of text in a
\* private chat, the lookup each link starts being left unanswered.
NextParse ==
  \/ GlobalReset
  \/ \E text \in ParseTexts : TextSent(text)

SpecParse == Init /\ [][NextParse]_vars

\* The approval alone: a guest's requests and the voters' taps within one
\* minute, with every answer to getTrack and addToQueue.  The refresh
\* requests sent on the way stay unanswered, so the credential is the one
\* of startup throughout.
NextApprove ==
  \/ GlobalReset
  \/ Requested
  \/ Lookups
  \/ \E v \in Voters, m \in votes, approve \in BOOLEAN : Voted(v, m, approve)
  \/ Deliveries
  \/ QueueAnswers

SpecApprove == Init /\ [][NextApprove]_vars

\* The way into the message handler: one guest writing in a private chat
\* and in the voting chat, often enough to be stopped by either limiter,
\* and the answers to the lookups.
NextGate ==
  \/ TickUntil(Horizon)
  \/ GlobalReset
  \/ \E group \in BOOLEAN, text \in Texts :
       Submitted("300", IF group THEN votingGroup ELSE "300", text)
  \/ Lookups

SpecGate == Init /\ [][NextGate]_vars

\* -------------------------------------------------------------- claims
CallsFor(id) == {a \in addCalls : a.msg = id}

\* The state of a request as the vote message and the queue calls show it.
RequestState(id) ==
  IF \E a \in CallsFor(id) : a.status = "shown" THEN "Approved"
  ELSE IF \E m \in votes : m.id = id /\ (~m.buttons \/ m.deleted) THEN "Declined"
  ELSE IF \E a \in CallsFor(id) : a.status = "failed" THEN "Failed"
  ELSE "Posted"

IsDeclineOutcome(text) ==
  Len(text) >= 3 /\ text[1] = "Von " /\ text[3] = " abgelehnt: "

\* C1: for every vote message, however its approve callbacks interleave, at
\* most one addToQueue call is issued and at most one outcome is displayed.
C1_OneQueueCallPerVote ==
  \A m \in votes : Cardinality(CallsFor(m.id)) <= 1 /\ m.edits <= 1

\* C2: a vote callback handled when its request is already Approved,
\* Declined or Failed changes no vote message, issues no call to the music
\* service and sends nothing.
C2_ResolvedIsFinal ==
  [][\A c \in inbox :
       c \notin inbox' /\ RequestState(c.msg) # "Posted"
         => /\ votes' = votes
            /\ addCalls' = addCalls
            /\ refreshing' = refreshing
            /\ replies' = replies]_vars

\* C3: once an approval has been queued and shown, the vote message (edited
\* once) names the approving voter and does not show the decline outcome.
C3_ApprovalShown ==
  \A a \in addCalls : \A m \in votes :
    a.status = "shown" /\ m.id = a.msg /\ m.edits = 1
      => m.text[2] = formatUser(Profile[a.from]) /\ ~IsDeclineOutcome(m.text)

\* C4: every failed addToQueue call is reported in the voting chat.
C4_FailureSurfaced ==
  \A a \in addCalls :
    a.status = "failed"
      => \E r \in replies : r.upd = a.upd /\ r.chat = votingGroup

\* C5: a request whose lookup failed gets a reply to the requester, and no
\* vote message.
C5_LookupFailureReplied ==
  \A l \in lookups :
    l.status = "failed"
      => /\ \E r \in replies : r.upd = l.upd /\ r.chat = l.chat
         /\ \A m \in votes : m.id # l.upd

\* Messages of u let through in minutes lo..hi.
PassedIn(u, lo, hi) == {p \in passed : p.from = u /\ lo <= p.at /\ p.at <= hi}

C7_DenialReplied ==
  \A d \in denied :
    d.kind = "message"
      => \E r \in replies :
           r.upd = d.upd /\ r.text = "Limit ueberschritten, bitte warten!"

\* C8: no addToQueue call is issued at or after the credential's expiry.
C8_NoCallWhenExpired ==
  \A a \in addCalls : a.at < a.expires

\* C9: when a refresh request returns a new access token, the stored access
\* token is the client's access token.
C9_RefreshSaved ==
  [][refreshing' < refreshing /\ service'.nextTok > service.nextTok
       => storage'.spotify_access_token = api'.accessToken]_vars

\* C10: after a completed authorization-code exchange, and before the
\* expiry of the access token it returned (the stored one), getSpotify
\* hands out that token and sends no refresh request.
C10_ExchangeRoundTrip ==
  [][\A l \in lookups' \ lookups :
       /\ \E r \in replies : r.text = "Login finished and saved"
       /\ now < service.exp[storage.spotify_access_token]
       => l.tok = storage.spotify_access_token /\ refreshing' = refreshing]_vars

\* C11: at most one refresh request is in flight at any time.
C11_SingleRefresh == refreshing <= 1

InvalidUrlReply == "Keine gueltige Spotify-URL. Sende /help fuer Hilfe."

Rejected(k) ==
  \/ \E d \in denied : d.upd = k /\ d.kind = "message"
  \/ \E p \in passed : p.upd = k /\ p.chat = votingGroup

\* C13: a message written in the voting chat or stopped by a limiter is
\* never parsed (it gets no format-help reply), never starts a lookup and
\* never leads to a vote message.
C13_RejectedAtOnce ==
  \A k \in 1..updates :
    Rejected(k)
      => /\ \A l \in lookups : l.upd # k
         /\ \A m \in votes : m.id # k
         /\ \A r \in replies : r.upd = k => r.text # InvalidUrlReply

\* A link was written in the voting chat, a message was stopped by the track
\* limiter, and another message of the same guest has led to a vote message.
C13_Witness ==
  /\ \E p \in passed : p.chat = votingGroup /\ p.text = TrackLink
  /\ \E d \in denied : d.kind = "message" /\ d.by = "track"
  /\ votes # {}

\* C14: every failure of a call made for an update (a rejected getTrack
\* of a request, a rejected addToQueue or getTrack of an approval) has been
\* answered with a chat reply for that update.
C14_FailuresAnswered ==
  /\ \A l \in lookups :
       l.status = "failed" => \E r \in replies : r.upd = l.upd
  /\ \A a \in addCalls :
       a.status \in {"failed", "queued, not shown"}
         => \E r \in replies : r.upd = a.upd

\* The "added to queue" reply of line 178 for some posted track.
IsConfirmation(r) ==
  /\ r.chat = votingGroup
  /\ \E m \in votes :
       r.text = "Lied zur Queue hinzugefuegt: " \o TrackDescription(m.uri)

\* C15: the "added to queue" reply is sent, and a vote message is edited or
\* deleted by the accept handler, only in a step that follows the success of
\* an addToQueue call for that vote message's track; every other change of a
\* vote message is the work of a decline callback.
C15_ConfirmAfterSuccess ==
  [][/\ \A r \in replies' \ replies :
          IsConfirmation(r)
            => \E a \in addCalls :
                 /\ a.upd = r.upd /\ a.status = "queued"
                 /\ \E m \in votes : m.id = a.msg /\ m.uri = a.uri
     /\ \A m \in votes :
          m \notin votes'
            => \/ \E c \in inbox \ inbox' : c.msg = m.id /\ c.data = DeclineData
               \/ \E a \in addCalls \ addCalls' :
                    a.msg = m.id /\ a.uri = m.uri /\ a.status = "queued"]_vars

\* One approval has been queued and confirmed, and another accept callback
\* whose addToQueue call failed has left no reply.
C15_Witness ==
  \E a \in addCalls, b \in addCalls :
    /\ a.status = "shown" /\ b.status = "failed"
    /\ \E r \in replies : r.upd = a.upd /\ IsConfirmation(r)
    /\ \E m \in votes : m.id = a.msg /\ ~m.buttons
    /\ \A r \in replies : r.upd # b.upd

\* C16: a refresh that fails leaves the credential as it was before the
\* refresh: neither the step that sends a refresh request nor the step in
\* which a request fails changes the client's tokens or the expiry time.
C16_FailedRefreshKeepsCredential ==
  [][(refreshing' > refreshing \/ (refreshing' < refreshing /\ service' = service))
       => api' = api /\ spotifyTokenExpires' = spotifyTokenExpires]_vars

\* A step in which getSpotify is called: the message handler's lookup, the
\* accept handler's addToQueue, or the lookup inside its callback.
GetCalled ==
  \/ \E l \in lookups' \ lookups : l.status = "pending"
  \/ \E a \in addCalls' \ addCalls : a.status \in {"pending", "queued"}

\* C17: a getSpotify call sends one refresh request when now >=
\* spotifyTokenExpires and none when now < spotifyTokenExpires, nothing else
\* sends one, and a refresh request answered with a new access token moves
\* spotifyTokenExpires to the time of the answer plus the token's lifetime,
\* which is when the service lets the token run out.
C17_RefreshWhenExpired ==
  [][/\ GetCalled /\ now >= spotifyTokenExpires => refreshing' = refreshing + 1
     /\ GetCalled /\ now < spotifyTokenExpires => refreshing' = refreshing
     /\ ~GetCalled => refreshing' <= refreshing
     /\ refreshing' < refreshing /\ service'.nextTok > service.nextTok
          => /\ spotifyTokenExpires' = now + TokenLifetime
             /\ spotifyTokenExpires' = service'.exp[api'.accessToken]]_vars

\* A refresh has succeeded, and a later getSpotify call made before the new
\* expiry has handed out the refreshed token without another request.
C17_Witness ==
  /\ now < spotifyTokenExpires
  /\ refreshing = 0
  /\ \E l \in lookups :
       l.tok = api.accessToken /\ l.tok \notin {Undefined, spotifyAccessToken}

\* The users whose message this step lets through or stops.
Submitters ==
  {p.from : p \in passed' \ passed} \cup {d.from : d \in denied' \ denied}

\* C18: a message of one user, let through or stopped, leaves every other
\* user's hit counts as they are, and with them the answer either limiter
\* would give to that other user's next message.
C18_PerUserLimit ==
  [][\A a \in Submitters : \A b \in Users \ {a} :
       /\ globalHits'[b] = globalHits[b]
       /\ trackHits'[b] = trackHits[b]
       /\ GlobalPass(b)' = GlobalPass(b)
       /\ TrackPass(b)' = TrackPass(b)]_vars

\* One user has been stopped by a limiter, and within the same minute a
\* later message of another user was let through.
C18_Witness ==
  \E d \in denied, p \in passed, q \in passed :
    /\ q.from = d.from /\ q.upd < d.upd /\ q.at = p.at
    /\ p.from # d.from /\ p.upd > d.upd

\* C19: the client's tokens are never replaced by older or absent ones.  The
\* service numbers the tokens it mints in the order it mints them, and an
\* absent token is 0, so no step lowers the access or the refresh token.
C19_NewestCredential ==
  [][/\ api'.accessToken >= api.accessToken
     /\ api'.refreshToken >= api.refreshToken]_vars

\* A step in which a command of user u is handled.
CommandFrom(u) ==
  \/ SpotifyLogin(u)
  \/ \E code \in Codes : SpotifyToken(u, code)
  \/ Id(u)

\* C20: a /spotifylogin, /spotifytoken or /id command of a user who is not
\* an admin sends no reply and no request to the music service, and leaves
\* the client's tokens, the expiry, the globals and the storage unchanged.
C20_AdminOnly ==
  [][\A u \in Users \ admins :
       CommandFrom(u)
         => UNCHANGED <<replies, grants, refreshing, service, api, storage,
                        spotifyRefreshToken, spotifyAccessToken,
                        spotifyTokenExpires>>]_vars

\* The admin's exchange has been answered and saved, and a command of
\* another user has reached its handler and was refused there.
C20_Witness ==
  /\ \E d \in denied : d.kind = "command" /\ d.by = "admin" /\ d.from \notin admins
  /\ \E r \in replies : r.text = "Login finished and saved"

\* C21: every addToQueue call is made for a vote message, with the URI that
\* the message's approve button carries in its callback data, which is the
\* URI spotifyUrlToUri produced from the requester's text, which holds the
\* id of the link's path segment unaltered.
C21_UriRoundTrip ==
  \A a \in addCalls :
    \E m \in votes, p \in passed :
      /\ m.id = a.msg /\ p.upd = m.id
      /\ m.data = AcceptPrefix \o a.uri
      /\ a.uri = m.uri
      /\ m.uri = spotifyUrlToUri(p.text)
      /\ \A x \in LinkTexts : x.text = p.text => a.uri = SpotifyTrack \o x.id

\* addToQueue has been called for a link that was written with a query
\* string or inside other text.
C21_Witness ==
  \E a \in addCalls, p \in passed, x \in LinkTexts :
    /\ p.upd = a.msg /\ p.text = x.text
    /\ SubSeq(x.text, Len(x.text) - Len(x.id) + 1, Len(x.text)) # x.id
    /\ x.id = <<"a", "_", "B", "9">>
    /\ a.uri = SpotifyTrack \o x.id

====
